---- MODULE Spec2Model ----
(***************************************************************************)
(* Notes web application: the notes table and the HTTP handlers of the two *)
(* variants of the program.                                                *)
(*   variant = "simple"    : src/main.go          (no pagination, no update)*)
(*   variant = "paginated" : src/unnamed/part_000 (pagination, update)     *)
(* A handler that issues one SQL statement and answers is one action.      *)
(* createNoteHandler is two steps (the INSERT, then LastInsertId and the   *)
(* redirect) so that other requests interleave between them; mainPage is   *)
(* two steps (the query that opens the row-set, then the scan, render and  *)
(* deferred close) so that the open row-set is a state of the model.       *)
(***************************************************************************)
EXTENDS Integers, Sequences, FiniteSets, TLC

\* Bounds of the model.
MaxSeq == 2        \* ids that AUTOINCREMENT may hand out under Spec
MaxInflight == 2   \* create requests in flight at once under Spec
MaxNotes == 3      \* size of the tables the read-only handlers are run on

\* Program constants.
limit == 1
StatusOK == 200
StatusSeeOther == 303
StatusBadRequest == 400
StatusNotFound == 404
StatusMethodNotAllowed == 405
StatusInternalServerError == 500

VARIABLES
    variant,    \* which of the two programs runs
    notes,      \* the notes table: rows [id, title, content] in rowid order
    seq,        \* sqlite_sequence: the largest rowid ever handed out
    reqs,       \* create requests between their INSERT and their redirect
    last,       \* the request answered last, with its response
    acked,      \* history: the redirects of creates whose row was not deleted since
    listing,    \* the listing request between its query and its return
    openRows    \* row-sets opened and not yet closed

vars == <<variant, notes, seq, reqs, last, acked, listing, openRows>>

Variants == {"simple", "paginated"}
Slots == 1..MaxInflight

----------------------------------------------------------------------------
\* Request inputs.

Digits == <<"0", "1", "2", "3", "4", "5", "6", "7", "8", "9">>

IsDigit(c) == \E i \in 1..10 : Digits[i] = c

DigitVal(c) == (CHOOSE i \in 1..10 : Digits[i] = c) - 1

RECURSIVE FormatInt(_)
\* fmt.Sprintf("%d", n) for n >= 0, as a sequence of characters
FormatInt(n) ==
    IF n < 10 THEN <<Digits[n + 1]>>
    ELSE Append(FormatInt(n \div 10), Digits[(n % 10) + 1])

RECURSIVE DigitsValue(_)
DigitsValue(s) ==
    IF s = <<>> THEN 0
    ELSE 10 * DigitsValue(SubSeq(s, 1, Len(s) - 1)) + DigitVal(s[Len(s)])

AllDigits(s) == s # <<>> /\ \A i \in 1..Len(s) : IsDigit(s[i])

\* strconv.Atoi: an optional sign, then one or more decimal digits
Atoi(s) ==
    LET signed == s # <<>> /\ s[1] \in {"+", "-"}
        body == IF signed THEN Tail(s) ELSE s
    IN  IF AllDigits(body)
        THEN [err |-> FALSE,
              val |-> IF signed /\ s[1] = "-" THEN 0 - DigitsValue(body)
                      ELSE DigitsValue(body)]
        ELSE [err |-> TRUE, val |-> 0]

Methods == {"GET", "POST"}
Titles == {"", "a", "b"}
Contents == {"", "c"}
IdParams ==
    {<<>>, <<"x">>, <<"0", "1">>} \cup {FormatInt(i) : i \in 1..(MaxSeq + 1)}
PageParams ==
    {<<>>, <<"x">>, <<"0">>, <<"-", "1">>, <<"+", "2">>, <<"0", "2">>}
        \cup {FormatInt(i) : i \in 1..(MaxNotes + 1)}

NoReq == [method |-> "", id |-> <<>>, title |-> "", content |-> "", page |-> <<>>,
          fault |-> ""]

----------------------------------------------------------------------------
\* The notes table and the SQL statements.

Ids(tbl) == {tbl[i].id : i \in 1..Len(tbl)}

\* id = ? with a TEXT argument against the INTEGER PRIMARY KEY column: the
\* text is compared as a number when it is a well-formed integer, and equals
\* no integer otherwise.
IdEq(rowid, arg) == AllDigits(arg) /\ DigitsValue(arg) = rowid

\* a row built with the two text columns exchanged
NewRowSwapped(id, title, content) == [id |-> id, title |-> content, content |-> title]

NewRow(id, title, content) == [id |-> id, title |-> title, content |-> content]

\* INTEGER PRIMARY KEY AUTOINCREMENT: one more than the largest rowid ever used
NextRowid == seq + 1

\* INSERT INTO notes (title, content) VALUES (?, ?)
Insert(tbl, title, content) == Append(tbl, NewRow(NextRowid, title, content))

\* a DELETE whose WHERE clause reads id <= ?
DeleteUpTo(tbl, arg) ==
    SelectSeq(tbl, LAMBDA r : ~(AllDigits(arg) /\ r.id <= DigitsValue(arg)))

\* DELETE FROM notes WHERE id = ?
DeleteById(tbl, arg) == SelectSeq(tbl, LAMBDA r : ~IdEq(r.id, arg))

\* a SELECT without its WHERE clause
QueryRowAny(tbl, arg) == tbl

\* SELECT id, title, content FROM notes WHERE id = ?
QueryRowById(tbl, arg) == SelectSeq(tbl, LAMBDA r : IdEq(r.id, arg))

\* SELECT id, title, content FROM notes LIMIT ? OFFSET ?
QueryLimitOffset(tbl, lim, off) ==
    SubSeq(tbl, off + 1, IF off + lim < Len(tbl) THEN off + lim ELSE Len(tbl))

\* rows.Scan into a Note: Id is a string in main.go and an int64 in part_000
Scan(r) ==
    [Id |-> IF variant = "simple" THEN FormatInt(r.id) ELSE r.id,
     Title |-> r.title, Content |-> r.content]

ScanAll(rs) == [i \in 1..Len(rs) |-> Scan(rs[i])]

----------------------------------------------------------------------------
\* Responses.

NoLocation == [path |-> "", id |-> <<>>]
NoBody == [Notes |-> <<>>, Page |-> 0, HasNext |-> FALSE, HasPrev |-> FALSE,
           NextPage |-> 0, PrevPage |-> 0]

Response(handler, req, status, location, body) ==
    [handler |-> handler, req |-> req, status |-> status, location |-> location,
     body |-> body]

\* http.Error
Error(handler, req, status) == Response(handler, req, status, NoLocation, NoBody)

\* http.Redirect with StatusSeeOther
Redirect(handler, req, path, id) ==
    Response(handler, req, StatusSeeOther, [path |-> path, id |-> id], NoBody)

\* the details and update templates executed on one note
RenderNote(handler, req, note) ==
    Response(handler, req, StatusOK, NoLocation, [NoBody EXCEPT !.Notes = <<note>>])

Idle == [pc |-> "idle", title |-> "", content |-> "", result |-> 0]
NoListing == [pc |-> "idle", req |-> NoReq, page |-> 0, rows |-> <<>>]

----------------------------------------------------------------------------
\* Initial states.

Init ==
    /\ variant \in Variants
    /\ notes = <<>>
    /\ seq = 0
    /\ reqs = [s \in Slots |-> Idle]
    /\ last = Response("none", NoReq, 0, NoLocation, NoBody)
    /\ acked = {}
    /\ listing = NoListing
    /\ openRows = 0

----------------------------------------------------------------------------
\* createNoteHandler

\* r.Method != http.MethodPost: checked by part_000 only
MethodRejected(method) == variant = "paginated" /\ method # "POST"

\* the check written with && for ||
InvalidBoth(title, content) == title = "" /\ content = ""

\* the check of the title alone
InvalidTitle(title, content) == title = ""

\* title == "" || content == ""
Invalid(title, content) == title = "" \/ content = ""

\* the last rowid of the whole database at the time of the call
LastInsertIdShared(s) == seq

\* result.LastInsertId(): the rowid of the row this Exec inserted
LastInsertId(s) == reqs[s].result

\* The fault of a step is the failure the environment injects into the one
\* call of the step that can fail; a branch that makes no such call takes the
\* step with fault "none" only.
\* Requests are interchangeable: a new one is served in the first free slot.
FreeSlot ==
    IF \E s \in Slots : reqs[s].pc = "idle"
    THEN CHOOSE s \in Slots : reqs[s].pc = "idle" /\ \A u \in 1..(s - 1) : reqs[u].pc # "idle"
    ELSE 0

createNoteHandler(s, method, title, content, fault) ==
    LET req == [NoReq EXCEPT !.method = method, !.title = title,
                             !.content = content, !.fault = fault]
    IN  /\ s = FreeSlot
        /\ IF MethodRejected(method)
           THEN /\ fault = "none"
                /\ last' = Error("create", req, StatusMethodNotAllowed)
                /\ UNCHANGED <<notes, seq, reqs>>
           ELSE IF Invalid(title, content)
           THEN /\ fault = "none"
                /\ last' = Error("create", req, StatusBadRequest)
                /\ UNCHANGED <<notes, seq, reqs>>
           ELSE IF fault = "exec"
           THEN /\ last' = Error("create", req, StatusInternalServerError)
                /\ UNCHANGED <<notes, seq, reqs>>
           ELSE /\ seq < MaxSeq
                /\ notes' = Insert(notes, title, content)
                /\ seq' = NextRowid
                /\ reqs' = [reqs EXCEPT ![s] = [pc |-> "inserted", title |-> title,
                                                content |-> content,
                                                result |-> NextRowid]]
                /\ UNCHANGED last
        /\ UNCHANGED <<variant, acked, listing, openRows>>

\* The second half of createNoteHandler: LastInsertId and the redirect. The
\* result of an Exec that succeeded holds the rowid, so the call returns it
\* without error. The response records the title and content of the request.
createNoteRedirect(s) ==
    LET req == [NoReq EXCEPT !.title = reqs[s].title, !.content = reqs[s].content,
                             !.fault = "none"]
        loc == FormatInt(LastInsertId(s))
    IN  /\ reqs[s].pc = "inserted"
        /\ last' = Redirect("create", req, "/note", loc)
        /\ acked' = IF \E i \in 1..Len(notes) : FormatInt(notes[i].id) = loc
                    THEN acked \cup {[loc |-> loc, title |-> reqs[s].title,
                                      content |-> reqs[s].content]}
                    ELSE acked
        /\ reqs' = [reqs EXCEPT ![s] = Idle]
        /\ UNCHANGED <<variant, notes, seq, listing, openRows>>

----------------------------------------------------------------------------
\* removeNoteHandler

removeNoteHandler(id, fault) ==
    LET req == [NoReq EXCEPT !.id = id, !.fault = fault]
        after == DeleteById(notes, id)
        rowsAffected == Len(notes) - Len(after)
    IN  /\ IF id = <<>>
           THEN /\ fault = "none"
                /\ last' = Error("remove", req, StatusBadRequest)
                /\ UNCHANGED <<notes, acked>>
           ELSE IF fault = "exec"
           THEN /\ last' = Error("remove", req, StatusInternalServerError)
                /\ UNCHANGED <<notes, acked>>
           ELSE /\ notes' = after
                /\ acked' = {a \in acked :
                                \E i \in 1..Len(after) : FormatInt(after[i].id) = a.loc}
                /\ last' = IF rowsAffected = 0
                           THEN Error("remove", req, StatusNotFound)
                           ELSE Redirect("remove", req, "/", <<>>)
        /\ UNCHANGED <<variant, seq, reqs, listing, openRows>>

----------------------------------------------------------------------------
\* updateNoteHandler (part_000 only)

\* Exec("UPDATE notes SET title = ?, content = ? WHERE id = ?", id): one
\* argument for three placeholders. The driver either refuses the statement
\* ("argerr") or runs it with the missing arguments NULL ("nullbind"), and
\* then WHERE id = NULL selects no row.
BindOutcomes == {"argerr", "nullbind"}

updateNoteHandler(id, outcome) ==
    LET req == [NoReq EXCEPT !.id = id, !.fault = outcome]
        matched == SelectSeq(notes, LAMBDA r : FALSE)   \* id = NULL holds of no row
        rowsAffected == Len(matched)
    IN  /\ variant = "paginated"
        /\ last' = IF id = <<>> THEN Error("update", req, StatusBadRequest)
                   ELSE IF outcome = "argerr"
                   THEN Error("update", req, StatusInternalServerError)
                   ELSE IF rowsAffected = 0
                   THEN Error("update", req, StatusNotFound)
                   ELSE Redirect("update", req, "/", <<>>)
        /\ UNCHANGED <<variant, notes, seq, reqs, acked, listing, openRows>>

----------------------------------------------------------------------------
\* detailPage / noteDetailPage and updatePage

\* the body shared by detailPage, noteDetailPage and updatePage
lookupPage(handler, id, fault) ==
    LET req == [NoReq EXCEPT !.id = id, !.fault = fault]
        found == QueryRowById(notes, id)
    IN  /\ IF id = <<>>
           THEN fault = "none" /\ last' = Error(handler, req, StatusBadRequest)
           ELSE IF fault = "query"
           THEN last' = Error(handler, req, StatusInternalServerError)
           ELSE IF found = <<>>
           THEN fault = "none" /\ last' = Error(handler, req, StatusNotFound)
           ELSE IF fault = "tmpl"
           THEN last' = Error(handler, req, StatusInternalServerError)
           ELSE last' = RenderNote(handler, req, Scan(found[1]))
        /\ UNCHANGED <<variant, notes, seq, reqs, acked, listing, openRows>>

detailPage(id, fault) == lookupPage("detail", id, fault)

updatePage(id, fault) == variant = "paginated" /\ lookupPage("updateForm", id, fault)

----------------------------------------------------------------------------
\* mainPage

\* page, err := strconv.Atoi(pageStr); if err != nil || page < 1 { page = 1 }
PageOf(pageStr) ==
    LET a == Atoi(pageStr) IN IF a.err \/ a.val < 1 THEN 1 ELSE a.val

\* an offset computed from the page number without the - 1
OffsetFromPage(page) == page * limit

\* offset := (page - 1) * limit
Offset(page) == (page - 1) * limit

\* a rows.Close() placed after the render instead of deferred
closeAfterRender(path) == IF path = "ok" THEN openRows - 1 ELSE openRows

\* the deferred rows.Close() runs on every return after the query succeeded
deferredClose(path) == openRows - 1

mainPage(pageStr, fault) ==
    LET req == [NoReq EXCEPT !.page = pageStr, !.fault = fault]
        page == IF variant = "paginated" THEN PageOf(pageStr) ELSE 0
        rows == IF variant = "paginated"
                THEN QueryLimitOffset(notes, limit + 1, Offset(page))
                ELSE notes
    IN  /\ listing.pc = "idle"
        /\ IF fault = "query"
           THEN /\ last' = Error("list", req, StatusInternalServerError)
                /\ UNCHANGED <<listing, openRows>>
           ELSE /\ listing' = [pc |-> "rows", req |-> req, page |-> page, rows |-> rows]
                /\ openRows' = openRows + 1
                /\ UNCHANGED last
        /\ UNCHANGED <<variant, notes, seq, reqs, acked>>

mainPageReturn(path) ==
    LET req == [listing.req EXCEPT !.fault = path]
        scanned == ScanAll(listing.rows)
        hasNext == variant = "paginated" /\ Len(scanned) > limit
        shown == IF hasNext THEN SubSeq(scanned, 1, limit) ELSE scanned
        page == listing.page
        data == IF variant = "paginated"
                THEN [Notes |-> shown, Page |-> page, HasNext |-> hasNext,
                      HasPrev |-> page > 1, NextPage |-> page + 1,
                      PrevPage |-> page - 1]
                ELSE [NoBody EXCEPT !.Notes = shown]
    IN  /\ listing.pc = "rows"
        /\ path = "scan" => listing.rows # <<>>
        /\ last' = IF path = "ok"
                   THEN Response("list", req, StatusOK, NoLocation, data)
                   ELSE Error("list", req, StatusInternalServerError)
        /\ openRows' = deferredClose(path)
        /\ listing' = NoListing
        /\ UNCHANGED <<variant, notes, seq, reqs, acked>>

----------------------------------------------------------------------------
\* Specifications.

ExecFaults == {"none", "exec"}
LookupFaults == {"none", "query", "tmpl"}
ReturnPaths == {"ok", "scan", "rowsErr", "tmpl"}

\* Every handler that reads or writes the table, interleaved. The failures of
\* the lookup handlers are exercised under SpecLookup.
Next ==
    \/ \E s \in Slots, m \in Methods, t \in Titles, c \in Contents, f \in ExecFaults :
          createNoteHandler(s, m, t, c, f)
    \/ \E s \in Slots : createNoteRedirect(s)
    \/ \E id \in IdParams, f \in ExecFaults : removeNoteHandler(id, f)
    \/ \E id \in IdParams, o \in BindOutcomes : updateNoteHandler(id, o)
    \/ \E id \in IdParams : detailPage(id, "none")

Spec == Init /\ [][Next]_vars

\* The requests that write the notes table, interleaved.
NextWrite ==
    \/ \E s \in Slots, m \in Methods, t \in Titles, c \in Contents, f \in ExecFaults :
          createNoteHandler(s, m, t, c, f)
    \/ \E s \in Slots : createNoteRedirect(s)
    \/ \E id \in IdParams, f \in ExecFaults : removeNoteHandler(id, f)

SpecWrite == Init /\ [][NextWrite]_vars

\* The tables the program can hold: rowids increase along the table, and
\* every title and content passed the create handler's check.
RECURSIVE Tables(_)
Tables(n) ==
    IF n = 0 THEN {<<>>}
    ELSE LET smaller == Tables(n - 1)
         IN  smaller \cup
             {Append(t, NewRow(n, ti, co)) :
                 t \in smaller, ti \in Titles \ {""}, co \in Contents \ {""}}

InitRead ==
    /\ variant \in Variants
    /\ notes \in Tables(MaxNotes)
    /\ seq = MaxNotes
    /\ reqs = [s \in Slots |-> Idle]
    /\ last = Response("none", NoReq, 0, NoLocation, NoBody)
    /\ acked = {}
    /\ listing = NoListing
    /\ openRows = 0

\* The listing handler on every such table.
NextList ==
    \/ \E p \in PageParams, f \in {"none", "query"} : mainPage(p, f)
    \/ \E path \in ReturnPaths : mainPageReturn(path)

SpecList == InitRead /\ [][NextList]_vars

\* The detail and update-form handlers on every such table.
NextLookup ==
    \/ \E id \in IdParams, f \in LookupFaults : detailPage(id, f)
    \/ \E id \in IdParams, f \in LookupFaults : updatePage(id, f)

SpecLookup == InitRead /\ [][NextLookup]_vars

----------------------------------------------------------------------------
\* Properties of the handlers.

\* some persisted note has the id the parameter names
HasId(tbl, id) == \E i \in 1..Len(tbl) : IdEq(tbl[i].id, id)

\* the table without its k-th row
Without(tbl, k) == [i \in 1..(Len(tbl) - 1) |-> IF i < k THEN tbl[i] ELSE tbl[i + 1]]

ClientError(status) == status \in 400..499

\* The inputs of a handler step are the ones recorded in the response it
\* wrote; a create step that inserted wrote none, and its inputs are the ones
\* held in its slot.
CreateAnswered ==
    /\ FreeSlot \in Slots
    /\ createNoteHandler(FreeSlot, last'.req.method, last'.req.title,
                         last'.req.content, last'.req.fault)

CreateInserted ==
    /\ FreeSlot \in Slots
    /\ reqs'[FreeSlot].pc = "inserted"
    /\ \E m \in Methods :
          createNoteHandler(FreeSlot, m, reqs'[FreeSlot].title,
                            reqs'[FreeSlot].content, "none")

RemoveAnswered == removeNoteHandler(last'.req.id, last'.req.fault)
UpdateAnswered == updateNoteHandler(last'.req.id, last'.req.fault)
LookupAnswered ==
    \/ detailPage(last'.req.id, last'.req.fault)
    \/ updatePage(last'.req.id, last'.req.fault)

\* C1: a create request whose title or content is empty is answered with a
\* client error, inserts no row and leaves the notes table as it was.
C1_EmptyFieldRejected ==
    [][/\ (CreateAnswered /\ (last'.req.title = "" \/ last'.req.content = ""))
             => /\ last'.handler = "create"
                /\ ClientError(last'.status)
                /\ notes' = notes
                /\ reqs' = reqs
       /\ CreateInserted
             => reqs'[FreeSlot].title # "" /\ reqs'[FreeSlot].content # ""]_vars

C1_Witness ==
    /\ last.handler = "create" /\ last.status = StatusBadRequest
    /\ last.req.title = "" /\ last.req.content = "c"
    /\ notes # <<>>

\* C2: a create request with non-empty title and content that the handler
\* accepts (POST; any method in main.go) and whose INSERT succeeds adds exactly
\* one row, holding its title and content under an id no other row or request
\* has; whatever other requests do in between, it then answers see-other to
\* /note?id=N with N the id of that very row, and adds no further row.
C2_RedirectsToOwnRow ==
    [][/\ \/ CreateInserted
          \/ /\ CreateAnswered
             /\ last'.req.method = "POST" \/ variant = "simple"
             /\ last'.req.title # "" /\ last'.req.content # ""
             /\ last'.req.fault = "none"
          => LET s == FreeSlot
                 new == notes'[Len(notes')]
             IN  /\ Len(notes') = Len(notes) + 1
                 /\ SubSeq(notes', 1, Len(notes)) = notes
                 /\ reqs'[s].pc = "inserted"
                 /\ new.title = reqs'[s].title /\ new.content = reqs'[s].content
                 /\ new.title # "" /\ new.content # ""
                 /\ new.id \notin Ids(notes)
                 /\ \A u \in Slots : reqs[u].pc = "inserted" => reqs[u].result # new.id
                 /\ reqs'[s].result = new.id
       /\ \A s \in Slots :
             reqs[s].pc = "inserted"
                 => \/ reqs'[s] = reqs[s]
                    \/ /\ reqs'[s].pc = "idle"
                       /\ notes' = notes
                       /\ last'.handler = "create"
                       /\ last'.req.title = reqs[s].title
                       /\ last'.req.content = reqs[s].content
                       /\ last'.status = StatusSeeOther
                       /\ last'.location = [path |-> "/note",
                                            id |-> FormatInt(reqs[s].result)]]_vars

C2_Witness ==
    /\ last.handler = "create" /\ last.status = StatusSeeOther
    /\ last.location = [path |-> "/note", id |-> <<"1">>]
    /\ seq = 2
    /\ \E s \in Slots : reqs[s].pc = "inserted" /\ reqs[s].result = 2

\* C3: a remove request with a non-empty id whose DELETE runs: when no
\* persisted note has the id it answers 404 and the table is unchanged; when
\* one has, exactly that row goes, the other rows stay as they were and in
\* their order, and the answer is a see-other redirect to the listing route.
C3_RemoveExactlyThatRow ==
    [][(RemoveAnswered /\ last'.req.id # <<>> /\ last'.req.fault = "none")
          => LET id == last'.req.id
             IN  /\ last'.handler = "remove"
                 /\ IF HasId(notes, id)
                    THEN /\ \E k \in 1..Len(notes) :
                               IdEq(notes[k].id, id) /\ notes' = Without(notes, k)
                         /\ last'.status = StatusSeeOther
                         /\ last'.location = [path |-> "/", id |-> <<>>]
                    ELSE /\ notes' = notes
                         /\ last'.status = StatusNotFound]_vars

C3_Witness ==
    /\ last.handler = "remove" /\ last.status = StatusSeeOther
    /\ last.req.id = <<"1">>
    /\ Len(notes) = 1 /\ notes[1].id = 2

\* C4: the paginated listing with limit 1, on a table of n notes and page p
\* (an absent, unparseable or below-1 parameter counts as 1), renders the p-th
\* note when p <= n and none when p > n, has-next iff n > p, has-prev iff
\* p > 1, and reports page p; so with 3 notes, pages 1, 2, 3 show notes 1, 2,
\* 3 with (next, prev) = (yes, no), (yes, yes), (no, yes).
C4_Pagination ==
    (variant = "paginated" /\ last.handler = "list" /\ last.status = StatusOK)
        => LET n == Len(notes)
               a == Atoi(last.req.page)
               p == IF a.err \/ a.val < 1 THEN 1 ELSE a.val
               b == last.body
           IN  /\ b.Notes = IF p <= n THEN <<Scan(notes[p])>> ELSE <<>>
               /\ b.HasNext = (n > p)
               /\ b.HasPrev = (p > 1)
               /\ b.Page = p
               /\ last.req.page \in {<<>>, <<"x">>, <<"0">>, <<"-", "1">>} => p = 1
               /\ (n = 3 /\ last.req.page = <<"1">>)
                     => b.Notes = <<Scan(notes[1])>> /\ b.HasNext /\ ~b.HasPrev
               /\ (n = 3 /\ last.req.page = <<"2">>)
                     => b.Notes = <<Scan(notes[2])>> /\ b.HasNext /\ b.HasPrev
               /\ (n = 3 /\ last.req.page = <<"3">>)
                     => b.Notes = <<Scan(notes[3])>> /\ ~b.HasNext /\ b.HasPrev

C4_Witness ==
    /\ variant = "paginated" /\ last.handler = "list" /\ last.status = StatusOK
    /\ Len(notes) = 3 /\ last.req.page = <<"2">>
    /\ last.body.Notes = <<Scan(notes[2])>>
    /\ last.body.HasNext /\ last.body.HasPrev

\* C5: once a create with title T and content C has redirected to /note?id=N,
\* and until the row N is removed, the lookup for N finds exactly one note,
\* with title T and content C, and a detail request for N renders that note,
\* whatever other creates, removes and updates happened in between.
C5_RoundTrip ==
    \A a \in acked :
        /\ Len(QueryRowById(notes, a.loc)) = 1
        /\ QueryRowById(notes, a.loc)[1].title = a.title
        /\ QueryRowById(notes, a.loc)[1].content = a.content
        /\ (last.handler = "detail" /\ last.req.id = a.loc /\ last.req.fault = "none")
              => /\ last.status = StatusOK
                 /\ Len(last.body.Notes) = 1
                 /\ last.body.Notes[1].Title = a.title
                 /\ last.body.Notes[1].Content = a.content

C5_Witness ==
    /\ last.handler = "detail" /\ last.status = StatusOK
    /\ \E a \in acked : a.loc = last.req.id /\ a.loc = <<"2">> /\ a.title = "b"
    /\ Len(notes) = 1

\* C6: a detail or update-form request with a non-empty id changes nothing in
\* the notes table; when its query and template do not fail it answers 404
\* with no note if no persisted note has the id, and renders exactly the note
\* with that id if one has.
C6_LookupContract ==
    [][(LookupAnswered /\ last'.req.id # <<>>)
          => LET id == last'.req.id
             IN  /\ notes' = notes
                 /\ last'.handler \in {"detail", "updateForm"}
                 /\ last'.req.fault = "none" =>
                       IF HasId(notes, id)
                       THEN /\ last'.status = StatusOK
                            /\ \E k \in 1..Len(notes) :
                                  /\ IdEq(notes[k].id, id)
                                  /\ last'.body.Notes = <<Scan(notes[k])>>
                       ELSE /\ last'.status = StatusNotFound
                            /\ last'.body.Notes = <<>>]_vars

C6_Witness ==
    /\ last.handler = "updateForm" /\ last.status = StatusOK
    /\ last.req.id = <<"0", "1">>
    /\ Len(notes) = 2 /\ last.body.Notes = <<Scan(notes[1])>>

\* C7: from the empty table, after any interleaving of create, update and
\* remove requests, every persisted note has a non-empty title and a
\* non-empty content.
C7_NoEmptyField ==
    \A i \in 1..Len(notes) : notes[i].title # "" /\ notes[i].content # ""

C7_Witness ==
    /\ last.handler = "update"
    /\ notes # <<>> /\ seq > Len(notes)

\* C8: an update request with a non-empty id redirects (see-other) to the
\* listing route when a persisted note has the id; when none has, it answers
\* 404, or 500 if the statement failed.
C8_UpdateContract ==
    [][(UpdateAnswered /\ last'.req.id # <<>>)
          => IF HasId(notes, last'.req.id)
             THEN /\ last'.status = StatusSeeOther
                  /\ last'.location = [path |-> "/", id |-> <<>>]
             ELSE last'.status \in {StatusNotFound, StatusInternalServerError}]_vars

\* C9: a request to /create whose method is not POST is answered
\* method-not-allowed and inserts no row, whatever title and content it has.
C9_NonPostRejected ==
    [][/\ (CreateAnswered /\ last'.req.method # "POST")
             => /\ last'.handler = "create"
                /\ last'.status = StatusMethodNotAllowed
                /\ notes' = notes
       /\ (/\ FreeSlot \in Slots
           /\ reqs'[FreeSlot].pc = "inserted"
           /\ \E m \in Methods \ {"POST"} :
                 createNoteHandler(FreeSlot, m, reqs'[FreeSlot].title,
                                   reqs'[FreeSlot].content, "none"))
             => notes' = notes]_vars

\* C10: the listing handler holds an open row-set only between its query and
\* its return: a failed query opens none, and every return (render, scan
\* error, iteration error, template error) closes the one the query opened.
C10_RowsClosed ==
    openRows = IF listing.pc = "rows" THEN 1 ELSE 0

C10_Witness ==
    /\ last.handler = "list" /\ last.req.fault = "scan"
    /\ last.status = StatusInternalServerError
    /\ listing.pc = "idle" /\ openRows = 0

====
